---- MODULE Spec2Model ----
(***************************************************************************)
(* A model of run_main of inference_gfpgan.py: the batch driver that lists *)
(* the input images, sets up the background upsampler and the GFPGAN       *)
(* restorer, and then, image by image, calls restorer.enhance and writes   *)
(* the cropped faces, restored faces, comparison images and the restored   *)
(* image.                                                                  *)
(*                                                                         *)
(* Strings are sequences of one-character strings, so that os.path.join,   *)
(* os.path.basename, os.path.splitext, the f-strings and sorted() are      *)
(* computed character by character.  The fixed directory names, weight     *)
(* file names and URLs are written as one symbol each.                     *)
(*                                                                         *)
(* The dictionary args of lines 19-31 is the run's configuration.  The     *)
(* code branches on args['version'], args['bg_upsampler'],                 *)
(* args['suffix'] and args['ext']; the model lets these keys range over    *)
(* small sets that contain the values written at lines 22-29, so that      *)
(* every branch of the code is exercised.                                  *)
(***************************************************************************)
EXTENDS Naturals, Sequences, FiniteSets, TLC

\* ------------------------------------------------------------------ bounds

\* the largest number of entries of the input directory
MaxFiles == 2

\* the largest number of faces restorer.enhance returns for one image
MaxFaces == 2

\* the number of face indices the naming functions are tabulated over
MaxIdx == 101

\* ----------------------------------------------------------------- strings

\* Python's None where a string is expected, and a local name not yet bound
None == <<"<None>">>
Unbound == <<"<unbound>">>

SEP == "/"
EXTSEP == "."

\* ord(c) of the characters that occur in the input paths
Code(c) ==
    CASE c = "." -> 46
      [] c = "/" -> 47
      [] c = "0" -> 48
      [] c = "1" -> 49
      [] c = "_" -> 95
      [] c = "a" -> 97
      [] c = "b" -> 98
      [] c = "g" -> 103
      [] c = "i" -> 105
      [] c = "j" -> 106
      [] c = "n" -> 110
      [] c = "p" -> 112
      [] c = "s" -> 115

\* s < t for Python strings: the first differing character decides, and a
\* proper prefix is smaller
RECURSIVE StrLess(_, _)
StrLess(s, t) ==
    IF t = <<>> THEN FALSE
    ELSE IF s = <<>> THEN TRUE
    ELSE IF Head(s) = Head(t) THEN StrLess(Tail(s), Tail(t))
    ELSE Code(Head(s)) < Code(Head(t))

\* sorted(S): the ascending list of the strings of S
RECURSIVE Sorted(_)
Sorted(S) ==
    IF S = {} THEN <<>>
    ELSE LET m == CHOOSE x \in S : \A y \in S \ {x} : StrLess(x, y)
         IN  <<m>> \o Sorted(S \ {m})

\* the largest k with s[k] = c, 0 when there is none (str.rfind, 1-based)
RFind(s, c) ==
    LET at == {k \in 1..Len(s) : s[k] = c}
    IN  IF at = {} THEN 0 ELSE CHOOSE k \in at : \A m \in at : m <= k

EndsWith(s, c) == s # <<>> /\ s[Len(s)] = c

\* os.path.join(a, b) on POSIX for a relative b
Join(a, b) ==
    IF a = <<>> \/ EndsWith(a, SEP) THEN a \o b ELSE a \o <<SEP>> \o b

Join3(a, b, c) == Join(Join(a, b), c)

\* os.path.basename(p): what follows the last separator
Basename(p) == SubSeq(p, RFind(p, SEP) + 1, Len(p))

\* os.path.splitext(p) for a p without separators: the split is at the last
\* dot, unless only dots precede it
SplitExt(p) ==
    LET dot == RFind(p, EXTSEP)
    IN  IF dot > 0 /\ \E k \in 1..(dot - 1) : p[k] # EXTSEP
        THEN <<SubSeq(p, 1, dot - 1), SubSeq(p, dot, Len(p))>>
        ELSE <<p, <<>>>>

\* s[1:]
DropFirst(s) == IF s = <<>> THEN <<>> ELSE Tail(s)

\* str(n) for a natural number n
Digit(d) ==
    CASE d = 0 -> "0" [] d = 1 -> "1" [] d = 2 -> "2" [] d = 3 -> "3"
      [] d = 4 -> "4" [] d = 5 -> "5" [] d = 6 -> "6" [] d = 7 -> "7"
      [] d = 8 -> "8" [] d = 9 -> "9"

RECURSIVE Str(_)
Str(n) == IF n < 10 THEN <<Digit(n)>> ELSE Str(n \div 10) \o <<Digit(n % 10)>>

\* f'{n:02d}': at least two digits, zero padded
Fmt02d(n) == IF n < 10 THEN <<"0">> \o Str(n) ELSE Str(n)


\* ------------------------------------------------------- output file names

PNG == <<".", "p", "n", "g">>
Auto == <<"a", "u", "t", "o">>

\* the mutant of FaceStem that leaves the basename out of the name
FaceStem_NoBasename(basename, idx) == <<"_">> \o Fmt02d(idx)

\* the mutant of FaceStem that leaves the face index out of the name
FaceStem_NoIndex(basename, idx) == basename \o <<"_">>

\* f'{basename}_{idx:02d}', the start of every face-level file name
FaceStem(basename, idx) == basename \o <<"_">> \o Fmt02d(idx)

\* line 128: save_crop_path
CropPath(output, basename, idx) ==
    Join3(output, <<"cropped_faces">>, FaceStem(basename, idx) \o PNG)

\* the mutant of SaveFaceName that never appends the suffix
SaveFaceName_NoSuffix(basename, idx, suffix) == FaceStem(basename, idx) \o PNG

\* lines 131-134: save_face_name
SaveFaceName(basename, idx, suffix) ==
    IF suffix # None
    THEN FaceStem(basename, idx) \o <<"_">> \o suffix \o PNG
    ELSE FaceStem(basename, idx) \o PNG

\* line 135: save_restore_path of a restored face
RestoredFacePath(output, basename, idx, suffix) ==
    Join3(output, <<"restored_faces">>, SaveFaceName(basename, idx, suffix))

\* line 139: the path of the comparison image
CmpPath(output, basename, idx) ==
    Join3(output, <<"cmp">>, FaceStem(basename, idx) \o PNG)

\* lines 143-146: extension
Extension(ext, ext_opt) == IF ext_opt = Auto THEN DropFirst(ext) ELSE ext_opt

\* lines 148-152: save_restore_path of the restored image
RestoredImgPath(output, basename, suffix, extension) ==
    IF suffix # None
    THEN Join3(output, <<"restored_imgs">>,
               basename \o <<"_">> \o suffix \o <<".">> \o extension)
    ELSE Join3(output, <<"restored_imgs">>, basename \o <<".">> \o extension)

\* line 156: the value run_main returns
ReturnValue(output, img_name) ==
    output \o <<"/", "restored_imgs", "/">> \o img_name

\* ---------------------------------------------------------- model variants

NoVariant == [arch |-> "", channel_multiplier |-> 0, model_name |-> "", url |-> ""]

\* the mutant of VariantOf that takes version 1.3 for an unknown identifier
VariantOf_Default(version) ==
    CASE version = "1" ->
           [arch |-> "original", channel_multiplier |-> 1, model_name |-> "GFPGANv1",
            url |-> "https://github.com/TencentARC/GFPGAN/releases/download/v0.1.0/GFPGANv1.pth"]
      [] version = "1.2" ->
           [arch |-> "clean", channel_multiplier |-> 2, model_name |-> "GFPGANCleanv1-NoCE-C2",
            url |-> "https://github.com/TencentARC/GFPGAN/releases/download/v0.2.0/GFPGANCleanv1-NoCE-C2.pth"]
      [] version = "1.4" ->
           [arch |-> "clean", channel_multiplier |-> 2, model_name |-> "GFPGANv1.4",
            url |-> "https://github.com/TencentARC/GFPGAN/releases/download/v1.3.0/GFPGANv1.4.pth"]
      [] version = "RestoreFormer" ->
           [arch |-> "RestoreFormer", channel_multiplier |-> 2, model_name |-> "RestoreFormer",
            url |-> "https://github.com/TencentARC/GFPGAN/releases/download/v1.3.4/RestoreFormer.pth"]
      [] OTHER ->
           [arch |-> "clean", channel_multiplier |-> 2, model_name |-> "GFPGANv1.3",
            url |-> "https://github.com/TencentARC/GFPGAN/releases/download/v1.3.0/GFPGANv1.3.pth"]

\* lines 66-92: arch, channel_multiplier, model_name and url of a version;
\* NoVariant stands for the else branch, which raises
VariantOf(version) ==
    CASE version = "1" ->
           [arch |-> "original", channel_multiplier |-> 1, model_name |-> "GFPGANv1",
            url |-> "https://github.com/TencentARC/GFPGAN/releases/download/v0.1.0/GFPGANv1.pth"]
      [] version = "1.2" ->
           [arch |-> "clean", channel_multiplier |-> 2, model_name |-> "GFPGANCleanv1-NoCE-C2",
            url |-> "https://github.com/TencentARC/GFPGAN/releases/download/v0.2.0/GFPGANCleanv1-NoCE-C2.pth"]
      [] version = "1.3" ->
           [arch |-> "clean", channel_multiplier |-> 2, model_name |-> "GFPGANv1.3",
            url |-> "https://github.com/TencentARC/GFPGAN/releases/download/v1.3.0/GFPGANv1.3.pth"]
      [] version = "1.4" ->
           [arch |-> "clean", channel_multiplier |-> 2, model_name |-> "GFPGANv1.4",
            url |-> "https://github.com/TencentARC/GFPGAN/releases/download/v1.3.0/GFPGANv1.4.pth"]
      [] version = "RestoreFormer" ->
           [arch |-> "RestoreFormer", channel_multiplier |-> 2, model_name |-> "RestoreFormer",
            url |-> "https://github.com/TencentARC/GFPGAN/releases/download/v1.3.4/RestoreFormer.pth"]
      [] OTHER -> NoVariant

\* line 95 and line 97: the two local candidates for the weight file
PretrainedPath(model_name) ==
    Join(<<"experiments/pretrained_models">>, <<model_name, ".pth">>)

WeightsPath(model_name) == Join(<<"gfpgan/weights">>, <<model_name, ".pth">>)

\* the mutant of ModelPath that looks into gfpgan/weights first
ModelPath_WeightsFirst(model_name, url, inPretrained, inWeights) ==
    IF inWeights THEN WeightsPath(model_name)
    ELSE IF inPretrained THEN PretrainedPath(model_name)
    ELSE <<url>>

\* lines 94-100: model_path, given which of the two candidates os.path.isfile
\* finds.  The second test of line 98 reads model_path as line 97 left it.
ModelPath(model_name, url, inPretrained, inWeights) ==
    LET first == PretrainedPath(model_name)
        firstIsFile == inPretrained
        second == IF ~firstIsFile THEN WeightsPath(model_name) ELSE first
        secondIsFile == IF ~firstIsFile THEN inWeights ELSE firstIsFile
    IN  IF ~secondIsFile THEN <<url>> ELSE second

\* the mutant of BgUpsampler that builds the upsampler without CUDA too
BgUpsampler_OnCpu(bg_opt, cuda) ==
    IF bg_opt = "realesrgan" THEN "RealESRGANer" ELSE "None"

\* lines 44-63: bg_upsampler
BgUpsampler(bg_opt, cuda) ==
    IF bg_opt = "realesrgan"
    THEN IF ~cuda THEN "None" ELSE "RealESRGANer"
    ELSE "None"

\* lines 45-48: whether warnings.warn is called
WarnsOnCpu(bg_opt, cuda) == bg_opt = "realesrgan" /\ ~cuda


\* ------------------------------------------------------------ the program

VARIABLES
    args,              \* the dictionary args of lines 19-31
    env,               \* what the run finds: the input directory, CUDA, weight files
    pc,                \* the statement run_main is at
    img_list,          \* line 37 / line 39
    bg_upsampler,      \* lines 44-63
    variant,           \* arch, channel_multiplier, model_name, url of lines 66-90
    model_path,        \* lines 95-100
    restorer,          \* lines 102-107
    i,                 \* the number of iterations of the loop of line 110 begun
    img_name,          \* line 112
    basename,          \* line 114
    ext,               \* line 114
    input_img,         \* line 115
    result,            \* cropped_faces, restored_faces, restored_img of line 118
    idx,               \* the loop variable of line 126
    save_restore_path, \* line 135 and lines 149-152
    ret,               \* the value returned at line 156
    err,               \* the exception that ended the run, if one did
    log,               \* every library call made so far, in order
    hjobs,             \* the naming table's two file names
    hout               \* the naming table: hout[k] the artifact paths of hjobs[k]

vars == <<args, env, pc, img_list, bg_upsampler, variant, model_path, restorer, i,
          img_name, basename, ext, input_img, result, idx, save_restore_path,
          ret, err, log, hjobs, hout>>

\* the input directory and the file names that may be in it
InDir == <<"i", "n">>

NamePool ==
    { <<"a", ".", "j", "p", "g">>,
      <<"a", ".", "p", "n", "g">>,
      <<"a", "_", "0", "0", ".", "p", "n", "g">>,
      <<"b">> }

OutDirs == { <<"o", "u", "t">>, <<"o", "u", "t", "/">> }

Suffixes == { None, <<"s">> }

Exts == { Auto, <<"p", "n", "g">> }

Versions == { "1", "1.2", "1.3", "1.4", "RestoreFormer", "2" }

Upsamplers == { "realesrgan", "none" }

NoRestorer ==
    [built |-> FALSE, model_path |-> <<>>, upscale |-> 0, arch |-> "",
     channel_multiplier |-> 0, bg_upsampler |-> ""]

NoResult == [faces |-> 0, restored_img |-> FALSE]

\* one entry of log
Event(e, job, kind, n, path, h) ==
    [e |-> e, job |-> job, kind |-> kind, idx |-> n, path |-> path, h |-> h,
     paste_back |-> FALSE]

\* the locals of run_main before their first assignment
Unassigned ==
    /\ img_list = <<>>
    /\ bg_upsampler = "unset"
    /\ variant = NoVariant
    /\ model_path = <<>>
    /\ restorer = NoRestorer
    /\ i = 0
    /\ img_name = Unbound
    /\ basename = Unbound
    /\ ext = Unbound
    /\ input_img = "unset"
    /\ result = NoResult
    /\ idx = 0
    /\ save_restore_path = Unbound
    /\ ret = Unbound
    /\ err = "none"
    /\ log = <<>>

\* the dictionary args of lines 19-31, its branching keys drawn from the given sets
Args(inputs, outputs, versions, upsamplers, suffixes, exts) ==
    [ input : inputs,
      output : outputs,
      version : versions,
      upscale : {2},
      bg_upsampler : upsamplers,
      bg_tile : {400},
      suffix : suffixes,
      only_center_face : {FALSE},
      aligned : {FALSE},
      ext : exts ]

\* the state at the entry of run_main, for a configuration and an environment
\* drawn from the given sets
InitOver(versions, upsamplers, suffixes, exts, outputs, pool, cudas, cached) ==
    /\ env \in { [entries |-> E, cuda |-> c, inPretrained |-> k[1], inWeights |-> k[2]] :
                   E \in {S \in SUBSET pool : Cardinality(S) <= MaxFiles},
                   c \in cudas, k \in cached }
    /\ args \in Args({InDir, InDir \o <<SEP>>} \cup {Join(InDir, n) : n \in pool},
                     outputs, versions, upsamplers, suffixes, exts)
    /\ pc = "input"
    /\ Unassigned
    /\ hjobs = <<>>
    /\ hout = <<>>

\* os.path.isfile(p): the regular files are the entries of the input directory
IsFile(p) == \E n \in env.entries : p = Join(InDir, n)

\* glob.glob(os.path.join(p, '*')): the entries of p whose name does not
\* start with a dot; nothing when p is not the directory
Glob(p) ==
    IF p = InDir THEN {Join(p, n) : n \in {m \in env.entries : m[1] # EXTSEP}} ELSE {}

\* the mutant of ImgList that lists the directory in descending order
ImgList_Descending(p) ==
    IF IsFile(p) THEN <<p>>
    ELSE LET s == Sorted(Glob(p))
         IN  [k \in 1..Len(s) |-> s[Len(s) + 1 - k]]

\* lines 36-39: img_list
ImgList(p) == IF IsFile(p) THEN <<p>> ELSE Sorted(Glob(p))

\* lines 34-39
ListInput ==
    /\ pc = "input"
    /\ LET p == IF EndsWith(args.input, SEP)
                THEN SubSeq(args.input, 1, Len(args.input) - 1)
                ELSE args.input
       IN  /\ args' = [args EXCEPT !.input = p]
           /\ img_list' = ImgList(p)
    /\ pc' = "makedirs"
    /\ UNCHANGED <<env, bg_upsampler, variant, model_path, restorer, i, img_name,
                   basename, ext, input_img, result, idx, save_restore_path, ret,
                   err, log, hjobs, hout>>

\* line 41
MakeDirs ==
    /\ pc = "makedirs"
    /\ log' = Append(log, Event("makedirs", 0, "", 0, args.output, ""))
    /\ pc' = "bg_upsampler"
    /\ UNCHANGED <<args, env, img_list, bg_upsampler, variant, model_path, restorer,
                   i, img_name, basename, ext, input_img, result, idx,
                   save_restore_path, ret, err, hjobs, hout>>

\* lines 44-63
SetUpBgUpsampler ==
    /\ pc = "bg_upsampler"
    /\ bg_upsampler' = BgUpsampler(args.bg_upsampler, env.cuda)
    /\ log' = log
              \o (IF WarnsOnCpu(args.bg_upsampler, env.cuda)
                  THEN <<Event("warn", 0, "", 0, <<>>, "")>> ELSE <<>>)
              \o <<Event("bg_upsampler", 0, "", 0, <<>>, bg_upsampler')>>
    /\ pc' = "version"
    /\ UNCHANGED <<args, env, img_list, variant, model_path, restorer, i, img_name,
                   basename, ext, input_img, result, idx, save_restore_path, ret,
                   err, hjobs, hout>>

\* lines 66-90: a known version
SetUpVersion ==
    /\ pc = "version"
    /\ VariantOf(args.version) # NoVariant
    /\ variant' = VariantOf(args.version)
    /\ pc' = "model_path"
    /\ UNCHANGED <<args, env, img_list, bg_upsampler, model_path, restorer, i,
                   img_name, basename, ext, input_img, result, idx,
                   save_restore_path, ret, err, log, hjobs, hout>>

\* lines 91-92: raise ValueError
WrongVersion ==
    /\ pc = "version"
    /\ VariantOf(args.version) = NoVariant
    /\ pc' = "raised"
    /\ err' = "ValueError"
    /\ UNCHANGED <<args, env, img_list, bg_upsampler, variant, model_path, restorer,
                   i, img_name, basename, ext, input_img, result, idx,
                   save_restore_path, ret, log, hjobs, hout>>

\* lines 94-100
DetermineModelPath ==
    /\ pc = "model_path"
    /\ model_path' = ModelPath(variant.model_name, variant.url,
                               env.inPretrained, env.inWeights)
    /\ pc' = "restorer"
    /\ UNCHANGED <<args, env, img_list, bg_upsampler, variant, restorer, i, img_name,
                   basename, ext, input_img, result, idx, save_restore_path, ret,
                   err, log, hjobs, hout>>

\* lines 102-107
BuildRestorer ==
    /\ pc = "restorer"
    /\ restorer' = [built |-> TRUE, model_path |-> model_path,
                    upscale |-> args.upscale, arch |-> variant.arch,
                    channel_multiplier |-> variant.channel_multiplier,
                    bg_upsampler |-> bg_upsampler]
    /\ log' = Append(log, Event("GFPGANer", 0, "", 0, model_path, bg_upsampler))
    /\ pc' = "loop"
    /\ UNCHANGED <<args, env, img_list, bg_upsampler, variant, model_path, i,
                   img_name, basename, ext, input_img, result, idx,
                   save_restore_path, ret, err, hjobs, hout>>


\* lines 110-115: the next img_path of img_list; cv2.imread returns the image,
\* or None for a file it cannot decode
NextImage ==
    /\ pc = "loop"
    /\ i < Len(img_list)
    /\ i' = i + 1
    /\ LET img_path == img_list[i + 1]
       IN  /\ img_name' = Basename(img_path)
           /\ basename' = SplitExt(Basename(img_path))[1]
           /\ ext' = SplitExt(Basename(img_path))[2]
           /\ \E img \in {"image", "None"} :
                /\ input_img' = img
                /\ log' = Append(log, Event("imread", i + 1, "", 0, img_path, img))
    /\ pc' = "enhance"
    /\ UNCHANGED <<args, env, img_list, bg_upsampler, variant, model_path, restorer,
                   result, idx, save_restore_path, ret, err, hjobs, hout>>

\* what restorer.enhance can return for a decoded image: up to MaxFaces pairs
\* of a cropped and a restored face, and the restored image or None
EnhanceResults == [faces : 0..MaxFaces, restored_img : BOOLEAN]

\* the entry of log for the call of lines 118-123
EnhanceCall(outcome, faces) ==
    [e |-> "enhance", job |-> i, kind |-> outcome, idx |-> faces, path |-> <<>>,
     h |-> restorer.bg_upsampler, paste_back |-> TRUE]

\* lines 118-123: restorer.enhance returns
EnhanceReturns ==
    /\ pc = "enhance"
    /\ input_img # "None"
    /\ \E r \in EnhanceResults :
         /\ result' = r
         /\ log' = Append(log, EnhanceCall("returned", r.faces))
    /\ idx' = 0
    /\ pc' = "faces"
    /\ UNCHANGED <<args, env, img_list, bg_upsampler, variant, model_path, restorer,
                   i, img_name, basename, ext, input_img, save_restore_path, ret,
                   err, hjobs, hout>>

\* lines 118-123: restorer.enhance raises, as it does for the None of an
\* undecodable file; nothing in the loop catches the exception
EnhanceRaises ==
    /\ pc = "enhance"
    /\ log' = Append(log, EnhanceCall("raised", 0))
    /\ pc' = "raised"
    /\ err' = "enhance"
    /\ UNCHANGED <<args, env, img_list, bg_upsampler, variant, model_path, restorer,
                   i, img_name, basename, ext, input_img, result, idx,
                   save_restore_path, ret, hjobs, hout>>

\* the three imwrite calls of one iteration of the loop of line 126
FaceWrites ==
    << Event("imwrite", i, "cropped_faces", idx,
             CropPath(args.output, basename, idx), ""),
       Event("imwrite", i, "restored_faces", idx,
             RestoredFacePath(args.output, basename, idx, args.suffix), ""),
       Event("imwrite", i, "cmp", idx,
             CmpPath(args.output, basename, idx), "") >>

\* lines 126-139: one iteration
SaveFace ==
    /\ pc = "faces"
    /\ idx < result.faces
    /\ log' = log \o FaceWrites
    /\ save_restore_path' = RestoredFacePath(args.output, basename, idx, args.suffix)
    /\ idx' = idx + 1
    /\ UNCHANGED <<args, env, pc, img_list, bg_upsampler, variant, model_path,
                   restorer, i, img_name, basename, ext, input_img, result, ret,
                   err, hjobs, hout>>

\* lines 126-139: one of the three imwrite calls raises
SaveFaceFails ==
    /\ pc = "faces"
    /\ idx < result.faces
    /\ \E done \in 0..2 :
         /\ log' = log \o SubSeq(FaceWrites, 1, done)
         /\ save_restore_path' =
              IF done >= 1
              THEN RestoredFacePath(args.output, basename, idx, args.suffix)
              ELSE save_restore_path
    /\ pc' = "raised"
    /\ err' = "imwrite"
    /\ UNCHANGED <<args, env, img_list, bg_upsampler, variant, model_path, restorer,
                   i, img_name, basename, ext, input_img, result, idx, ret,
                   hjobs, hout>>

\* lines 142-153, after the last face
SaveRestoredImg ==
    /\ pc = "faces"
    /\ idx = result.faces
    /\ IF result.restored_img
       THEN LET path == RestoredImgPath(args.output, basename, args.suffix,
                                        Extension(ext, args.ext))
            IN  /\ save_restore_path' = path
                /\ log' = Append(log, Event("imwrite", i, "restored_imgs", 0, path, ""))
       ELSE UNCHANGED <<save_restore_path, log>>
    /\ pc' = "loop"
    /\ UNCHANGED <<args, env, img_list, bg_upsampler, variant, model_path, restorer,
                   i, img_name, basename, ext, input_img, result, idx, ret, err,
                   hjobs, hout>>

\* line 153: imwrite raises
SaveRestoredImgFails ==
    /\ pc = "faces"
    /\ idx = result.faces
    /\ result.restored_img
    /\ save_restore_path' = RestoredImgPath(args.output, basename, args.suffix,
                                            Extension(ext, args.ext))
    /\ pc' = "raised"
    /\ err' = "imwrite"
    /\ UNCHANGED <<args, env, img_list, bg_upsampler, variant, model_path, restorer,
                   i, img_name, basename, ext, input_img, result, idx, ret, log,
                   hjobs, hout>>

\* lines 155-156, img_name bound by the last iteration
Return ==
    /\ pc = "loop"
    /\ i = Len(img_list)
    /\ img_name # Unbound
    /\ ret' = ReturnValue(args.output, img_name)
    /\ pc' = "done"
    /\ UNCHANGED <<args, env, img_list, bg_upsampler, variant, model_path, restorer,
                   i, img_name, basename, ext, input_img, result, idx,
                   save_restore_path, err, log, hjobs, hout>>

\* line 156 after a loop of no iteration: img_name was never bound, and
\* reading it raises UnboundLocalError
ReturnUnbound ==
    /\ pc = "loop"
    /\ i = Len(img_list)
    /\ img_name = Unbound
    /\ pc' = "raised"
    /\ err' = "UnboundLocalError"
    /\ UNCHANGED <<args, env, img_list, bg_upsampler, variant, model_path, restorer,
                   i, img_name, basename, ext, input_img, result, idx,
                   save_restore_path, ret, log, hjobs, hout>>

Next ==
    \/ ListInput
    \/ MakeDirs
    \/ SetUpBgUpsampler
    \/ SetUpVersion
    \/ WrongVersion
    \/ DetermineModelPath
    \/ BuildRestorer
    \/ NextImage
    \/ EnhanceReturns
    \/ EnhanceRaises
    \/ SaveFace
    \/ SaveFaceFails
    \/ SaveRestoredImg
    \/ SaveRestoredImgFails
    \/ Return
    \/ ReturnUnbound

\* the batch: version 1.3 of line 22 and an unknown one, the upsampler of
\* line 24, every suffix, extension policy and output directory, with and
\* without CUDA, no local weights
Init ==
    InitOver({"1.3", "2"}, {"realesrgan"}, Suffixes, Exts, OutDirs, NamePool,
             BOOLEAN, {<<FALSE, FALSE>>})

Spec == Init /\ [][Next]_vars

\* the set-up: every version, upsampler setting and place of the weight
\* file, with the suffix, extension policy and output directory fixed
InitSetUp ==
    InitOver(Versions, Upsamplers, {None}, {Auto}, {<<"o", "u", "t">>},
             {<<"a", ".", "j", "p", "g">>, <<"b">>},
             BOOLEAN, BOOLEAN \X BOOLEAN)

SpecSetUp == InitSetUp /\ [][Next]_vars


\* ------------------------------------------------------- the naming table

\* the file names the naming functions are tabulated for
NamingPool ==
    NamePool \cup { <<"a", "_", "1", ".", "j", "p", "g">>, <<"b", ".">> }

\* two file names of one batch, and the suffix, extension policy and output
\* directory of the run
InitNaming ==
    /\ hjobs \in NamingPool \X NamingPool
    /\ hout = <<>>
    /\ args \in Args({InDir}, OutDirs, {"1.3"}, {"realesrgan"},
                     Suffixes \cup {<<"0", "0">>}, Exts)
    /\ env = [entries |-> {hjobs[1], hjobs[2]}, cuda |-> FALSE,
              inPretrained |-> FALSE, inWeights |-> FALSE]
    /\ pc = "naming"
    /\ Unassigned

\* lines 112-152 for the file name img_name and every face index below
\* MaxIdx: the basename, the extension and the four artifact paths
Artifacts(img_name_) ==
    LET b == SplitExt(img_name_)[1]
        e == SplitExt(img_name_)[2]
    IN  [ basename |-> b,
          ext |-> e,
          cropped_faces |-> [n \in 0..(MaxIdx - 1) |-> CropPath(args.output, b, n)],
          restored_faces |->
              [n \in 0..(MaxIdx - 1) |-> RestoredFacePath(args.output, b, n, args.suffix)],
          cmp |-> [n \in 0..(MaxIdx - 1) |-> CmpPath(args.output, b, n)],
          restored_imgs |->
              RestoredImgPath(args.output, b, args.suffix, Extension(e, args.ext)) ]

\* the table gets the artifact paths of the next file name
NameJob ==
    /\ pc = "naming"
    /\ Len(hout) < Len(hjobs)
    /\ hout' = Append(hout, Artifacts(hjobs[Len(hout) + 1]))
    /\ UNCHANGED <<args, env, pc, img_list, bg_upsampler, variant, model_path,
                   restorer, i, img_name, basename, ext, input_img, result, idx,
                   save_restore_path, ret, err, log, hjobs>>


NextNaming == NameJob

SpecNaming == InitNaming /\ [][NextNaming]_vars


\* ------------------------------------------------------------- properties

KnownVersions == {"1", "1.2", "1.3", "1.4", "RestoreFormer"}

Terminated == pc \in {"done", "raised"}

\* the positions of log that hold a call of e
Calls(e) == {k \in DOMAIN log : log[k].e = e}

\* the positions of log that hold an imwrite into the directory kind
WritesOf(kind) == {k \in Calls("imwrite") : log[k].kind = kind}

IsPrefix(s, t) == Len(s) <= Len(t) /\ SubSeq(t, 1, Len(s)) = s

IsSuffix(s, t) == Len(s) <= Len(t) /\ SubSeq(t, Len(t) - Len(s) + 1, Len(t)) = s

\* a path with every run of separators written as one separator: two paths
\* that agree so far name the same file
RECURSIVE Canonical(_)
Canonical(p) ==
    IF Len(p) < 2 THEN p
    ELSE IF p[1] = SEP /\ p[2] = SEP THEN Canonical(Tail(p))
    ELSE <<p[1]>> \o Canonical(Tail(p))

SameFile(p, q) == Canonical(p) = Canonical(q)

\* the files the run has written into the directory sub of the output directory
FilesIn(sub) ==
    LET dir == Canonical(args.output \o <<SEP, sub, SEP>>)
    IN  {Canonical(log[k].path) : k \in {w \in Calls("imwrite") :
                                          IsPrefix(dir, Canonical(log[w].path))}}

\* the file name without its extension, read off the path
Stem(path) == SplitExt(Basename(path))[1]

\* every job of the batch has been enhanced and its artifacts written
BatchDone == pc \in {"loop", "done"} /\ i = Len(img_list) /\ restorer.built

\* C1: a run over an empty job list writes nothing and ends by returning; it
\* never ends in the error of reading a last image name that was never bound.
C1_EmptyBatchReturns ==
    (Terminated /\ img_list = <<>> /\ args.version \in KnownVersions)
        => (pc = "done" /\ Calls("imwrite") = {} /\ err # "UnboundLocalError")

\* C2: when restorer.enhance fails for job k (an undecodable file included),
\* only job k is lost: every job of the batch is still read and enhanced
\* before the run ends.
C2_FailureConfined ==
    (Terminated /\ \E k \in Calls("enhance") : log[k].kind = "raised")
        => \A j \in 1..Len(img_list) :
             /\ \E k \in Calls("imread") : log[k].job = j
             /\ \E k \in Calls("enhance") : log[k].job = j

\* C3: the value run_main returns names the file the run wrote as the last
\* job's restored image.
C3_ReturnsWrittenPath ==
    pc = "done"
        => \E k \in WritesOf("restored_imgs") :
             /\ log[k].job = Len(img_list)
             /\ SameFile(log[k].path, ret)


\* the value of a string of decimal digits
DigitValue(c) ==
    CASE c = "0" -> 0 [] c = "1" -> 1 [] c = "2" -> 2 [] c = "3" -> 3
      [] c = "4" -> 4 [] c = "5" -> 5 [] c = "6" -> 6 [] c = "7" -> 7
      [] c = "8" -> 8 [] c = "9" -> 9

IsDigits(s) ==
    \A k \in 1..Len(s) : s[k] \in {"0", "1", "2", "3", "4", "5", "6", "7", "8", "9"}

RECURSIVE Value(_)
Value(s) ==
    IF s = <<>> THEN 0
    ELSE 10 * Value(SubSeq(s, 1, Len(s) - 1)) + DigitValue(s[Len(s)])

\* s writes n in decimal with at least two digits, zero padded only up to two
IsIndex(s, n) ==
    /\ Len(s) >= 2
    /\ IsDigits(s)
    /\ Value(s) = n
    /\ Len(s) > 2 => s[1] # "0"

\* the file name of path is <b>_<n as an index><tail>
IsFaceName(path, b, n, tail) ==
    LET name == Basename(path)
        from == Len(b) + 2
        to == Len(name) - Len(tail)
    IN  /\ IsPrefix(b \o <<"_">>, name)
        /\ IsSuffix(tail, name)
        /\ from <= to
        /\ IsIndex(SubSeq(name, from, to), n)

\* what follows the index in a face-level name when the suffix is applied
SuffixedTail == IF args.suffix # None THEN <<"_">> \o args.suffix \o PNG ELSE PNG

Indices == 0..(MaxIdx - 1)

\* C4 as stated: the cropped face, the restored face and the comparison image
\* of face idx are all named <basename>_<idx>, followed by _<suffix> exactly
\* when a suffix is configured, so the three carry the same file name.
C4_SameNameWithSuffix ==
    \A k \in DOMAIN hout : \A n \in Indices :
        /\ IsFaceName(hout[k].cropped_faces[n], hout[k].basename, n, SuffixedTail)
        /\ IsFaceName(hout[k].restored_faces[n], hout[k].basename, n, SuffixedTail)
        /\ IsFaceName(hout[k].cmp[n], hout[k].basename, n, SuffixedTail)
        /\ Basename(hout[k].cropped_faces[n]) = Basename(hout[k].restored_faces[n])
        /\ Basename(hout[k].cropped_faces[n]) = Basename(hout[k].cmp[n])

\* C4 as amended: the three are named <basename>_<idx as at least 2 zero-padded
\* digits>; only the restored face is followed by _<suffix>, exactly when a
\* suffix is configured; the cropped face and the comparison image never are.
\* The three carry the same file name exactly when no suffix is configured.
C4_SuffixOnRestoredFaceOnly ==
    \A k \in DOMAIN hout : \A n \in Indices :
        /\ IsFaceName(hout[k].cropped_faces[n], hout[k].basename, n, PNG)
        /\ IsFaceName(hout[k].restored_faces[n], hout[k].basename, n, SuffixedTail)
        /\ IsFaceName(hout[k].cmp[n], hout[k].basename, n, PNG)
        /\ Basename(hout[k].cropped_faces[n]) = Basename(hout[k].cmp[n])
        /\ (Basename(hout[k].cropped_faces[n]) = Basename(hout[k].restored_faces[n]))
              <=> (args.suffix = None)
        /\ IsPrefix(Canonical(args.output \o <<SEP, "cropped_faces", SEP>>),
                    Canonical(hout[k].cropped_faces[n]))
        /\ IsPrefix(Canonical(args.output \o <<SEP, "restored_faces", SEP>>),
                    Canonical(hout[k].restored_faces[n]))
        /\ IsPrefix(Canonical(args.output \o <<SEP, "cmp", SEP>>),
                    Canonical(hout[k].cmp[n]))

\* a file whose basename ends in _<digits> has been named for a run with a
\* suffix, face 100 included
C4_Witness ==
    /\ Len(hout) >= 1
    /\ args.suffix # None
    /\ hout[1].basename = <<"a", "_", "0", "0">>
    /\ MaxIdx > 100
    /\ Basename(hout[1].restored_faces[100])
         = <<"a", "_", "0", "0", "_", "1", "0", "0", "_">> \o args.suffix \o PNG

\* every path of the artifacts t
PathsOf(t) ==
    {t.cropped_faces[n] : n \in Indices} \cup {t.restored_faces[n] : n \in Indices}
        \cup {t.cmp[n] : n \in Indices} \cup {t.restored_imgs}

\* C5 as stated: within one run the artifact paths are a function of the
\* basename and the face index only, and two jobs with distinct basenames
\* share no artifact path.
C5_FunctionOfBasenameOnly ==
    Len(hout) = 2 =>
        /\ hout[1].basename = hout[2].basename
              => /\ hout[1].cropped_faces = hout[2].cropped_faces
                 /\ hout[1].restored_faces = hout[2].restored_faces
                 /\ hout[1].cmp = hout[2].cmp
                 /\ hout[1].restored_imgs = hout[2].restored_imgs
        /\ hout[1].basename # hout[2].basename
              => PathsOf(hout[1]) \cap PathsOf(hout[2]) = {}

\* C5 as amended: the face-level paths are a function of the basename and the
\* face index only; the path of the restored image is a function of the
\* basename alone under an explicit extension, and of the basename and the
\* source extension under the auto policy; two jobs with distinct basenames
\* share no artifact path, whatever the face indices.
C5_InjectiveAcrossBasenames ==
    Len(hout) = 2 =>
        /\ hout[1].basename = hout[2].basename
              => /\ hout[1].cropped_faces = hout[2].cropped_faces
                 /\ hout[1].restored_faces = hout[2].restored_faces
                 /\ hout[1].cmp = hout[2].cmp
                 /\ (args.ext # Auto \/ hout[1].ext = hout[2].ext)
                       => hout[1].restored_imgs = hout[2].restored_imgs
        /\ hout[1].basename # hout[2].basename
              => PathsOf(hout[1]) \cap PathsOf(hout[2]) = {}

\* two files with distinct basenames, one ending in _<digits> that the other's
\* face index could spell, have been named with 3-digit indices
C5_Witness ==
    /\ Len(hout) = 2
    /\ hout[1].basename = <<"a">>
    /\ hout[2].basename = <<"a", "_", "1">>
    /\ MaxIdx > 100
    /\ Basename(hout[1].cropped_faces[100]) = <<"a", "_", "1", "0", "0">> \o PNG
    /\ Basename(hout[2].cropped_faces[0]) = <<"a", "_", "1", "_", "0", "0">> \o PNG


\* the number of faces restorer.enhance returned, summed over the calls in
\* the first n entries of log
RECURSIVE FacesReturned(_)
FacesReturned(n) ==
    IF n = 0 THEN 0
    ELSE FacesReturned(n - 1)
         + (IF log[n].e = "enhance" /\ log[n].kind = "returned" THEN log[n].idx ELSE 0)

\* no two jobs of the batch have the same basename
DistinctBasenames ==
    \A j, k \in 1..Len(img_list) : j # k => Stem(img_list[j]) # Stem(img_list[k])

\* one file per detected face in each face-level directory, at most one
\* restored image per job
OneTriplePerFace ==
    /\ Cardinality(FilesIn("cropped_faces")) = FacesReturned(Len(log))
    /\ Cardinality(FilesIn("restored_faces")) = FacesReturned(Len(log))
    /\ Cardinality(FilesIn("cmp")) = FacesReturned(Len(log))
    /\ Cardinality(FilesIn("restored_imgs")) <= Len(img_list)

\* C6 as stated: after a batch of N distinct input files for which the engine
\* returned f_1..f_N faces, each of cropped_faces/, restored_faces/ and cmp/
\* holds exactly f_1+...+f_N distinct files and restored_imgs/ at most N,
\* whatever the file names, names that differ only in their extension included.
C6_OneTriplePerFaceAnyNames == BatchDone => OneTriplePerFace

\* C6 as amended: the same, for a batch whose files have pairwise distinct
\* basenames (the file name without its extension).
C6_OneTriplePerFaceDistinctBasenames ==
    (BatchDone /\ DistinctBasenames) => OneTriplePerFace

\* a batch of two files with distinct basenames, one of them ending in
\* _<digits>, two faces each, has been written
C6_Witness ==
    /\ pc = "done"
    /\ Len(img_list) = 2
    /\ DistinctBasenames
    /\ Stem(img_list[2]) = <<"a", "_", "0", "0">>
    /\ FacesReturned(Len(log)) = 4
    /\ Cardinality(FilesIn("cmp")) = 4
    /\ Cardinality(FilesIn("restored_imgs")) = 2

\* C7: the weight file is taken from experiments/pretrained_models if it is
\* there, else from gfpgan/weights if it is there, else the variant's URL is
\* taken; the result is never empty, the step cannot fail, and the restorer
\* is built from it.
C7_WeightResolution ==
    /\ pc = "model_path" => ENABLED DetermineModelPath
    /\ pc \in {"restorer", "loop", "enhance", "faces", "done"} =>
         /\ args.version \in KnownVersions
         /\ variant.model_name # "" /\ variant.url # ""
         /\ env.inPretrained =>
              model_path = <<"experiments/pretrained_models", "/", variant.model_name, ".pth">>
         /\ (~env.inPretrained /\ env.inWeights) =>
              model_path = <<"gfpgan/weights", "/", variant.model_name, ".pth">>
         /\ (~env.inPretrained /\ ~env.inWeights) => model_path = <<variant.url>>
         /\ model_path # <<>>
         /\ restorer.built => restorer.model_path = model_path

\* the weight file is in both directories and the restorer was built from
\* the one in experiments/pretrained_models
C7_Witness ==
    /\ restorer.built
    /\ env.inPretrained /\ env.inWeights
    /\ args.version = "RestoreFormer"
    /\ restorer.model_path
         = <<"experiments/pretrained_models", "/", "RestoreFormer", ".pth">>

\* C8: with a version that is none of the five known ones the run ends in
\* ValueError, never with a default variant: the restorer is never built, no
\* image is read or enhanced and no file is written.
C8_UnknownVersionAborts ==
    args.version \notin KnownVersions =>
        /\ pc = "version" => ENABLED WrongVersion /\ ~ENABLED SetUpVersion
        /\ pc \in {"input", "makedirs", "bg_upsampler", "version", "raised"}
        /\ pc = "raised" => err = "ValueError"
        /\ variant = NoVariant
        /\ ~restorer.built
        /\ Calls("GFPGANer") = {} /\ Calls("imread") = {}
        /\ Calls("enhance") = {} /\ Calls("imwrite") = {}
        /\ i = 0

\* a run with an unknown version over a directory of two files has ended in
\* ValueError
C8_Witness ==
    /\ args.version \notin KnownVersions
    /\ pc = "raised" /\ err = "ValueError"
    /\ Len(img_list) = 2


\* background upsampling is selected and CUDA is not available
Degraded == args.bg_upsampler = "realesrgan" /\ ~env.cuda

\* the jobs the loop has handed to restorer.enhance so far
Enhanced == IF pc = "enhance" THEN 1..(i - 1) ELSE 1..i

\* C9: bg_upsampler is None exactly when background upsampling is not
\* selected or CUDA is not available.  When it is selected and CUDA is not
\* available, the warning is issued once, during the set-up and not per image,
\* the restorer is still built, with None as its upsampler, and each job the
\* loop comes to is enhanced with paste_back=True, all of them when the loop
\* ends.
C9_UpsamplerDisabledGracefully ==
    /\ bg_upsampler # "unset" =>
         /\ bg_upsampler = "None" <=> (args.bg_upsampler # "realesrgan" \/ ~env.cuda)
         /\ bg_upsampler # "None" => bg_upsampler = "RealESRGANer"
         /\ Cardinality(Calls("warn")) = (IF Degraded THEN 1 ELSE 0)
         /\ \A w \in Calls("warn") : \A k \in Calls("imread") \cup Calls("GFPGANer") : w < k
    /\ bg_upsampler = "unset" => Calls("warn") = {}
    /\ (Degraded /\ args.version \in KnownVersions) =>
         /\ pc = "restorer" => ENABLED BuildRestorer
         /\ restorer.built => restorer.bg_upsampler = "None"
         /\ \A j \in Enhanced :
              \E k \in Calls("enhance") : log[k].job = j
         /\ \A k \in Calls("enhance") : log[k].paste_back /\ log[k].h = "None"
         /\ pc = "done" => Cardinality(Calls("enhance")) = Len(img_list)
    /\ \A k \in Calls("enhance") : log[k].paste_back /\ log[k].h = bg_upsampler

\* a batch of two images has been enhanced after the upsampler was disabled
\* for want of CUDA
C9_Witness ==
    /\ Degraded
    /\ pc = "done"
    /\ Len(img_list) = 2
    /\ Cardinality(Calls("warn")) = 1
    /\ Cardinality(Calls("enhance")) = 2

\* C10: the upsampler and the restorer are set up once, before the first job;
\* the jobs are the single input file, or the directory's entries in ascending
\* order of their paths; they are read and enhanced one after the other in
\* that order, each once, every write of a job before the next job is read,
\* and every file of a job is named after that job's own input file.
C10_SequentialInOrder ==
    LET reads == Calls("imread")
        enhances == Calls("enhance")
        writes == Calls("imwrite")
        setups == Calls("bg_upsampler") \cup Calls("GFPGANer")
    IN  /\ Cardinality(Calls("bg_upsampler")) <= 1
        /\ Cardinality(Calls("GFPGANer")) <= 1
        /\ i >= 1 =>
             /\ Cardinality(Calls("bg_upsampler")) = 1
             /\ Cardinality(Calls("GFPGANer")) = 1
             /\ \A s \in setups : \A k \in reads \cup enhances \cup writes : s < k
        /\ pc # "input" =>
             /\ \A k \in 2..Len(img_list) : StrLess(img_list[k - 1], img_list[k])
             /\ IsFile(args.input) => img_list = <<args.input>>
             /\ ~IsFile(args.input) =>
                  {img_list[k] : k \in 1..Len(img_list)} = Glob(args.input)
        /\ i <= Len(img_list)
        /\ \A j \in 1..i :
             /\ Cardinality({k \in reads : log[k].job = j}) = 1
             /\ \A k \in reads : log[k].job = j => log[k].path = img_list[j]
        /\ \A j \in 1..Len(img_list) :
             /\ Cardinality({k \in enhances : log[k].job = j}) <= 1
             /\ j \in Enhanced => Cardinality({k \in enhances : log[k].job = j}) = 1
             /\ j > i => {k \in DOMAIN log : log[k].job = j} = {}
        /\ \A k \in enhances : k > 1 /\ log[k - 1].e = "imread"
                                     /\ log[k - 1].job = log[k].job
        /\ \A k \in 2..Len(log) : log[k - 1].job <= log[k].job
        /\ \A k \in reads \cup enhances \cup writes : log[k].job \in 1..i
        /\ \A k \in writes :
             /\ IsPrefix(Stem(img_list[log[k].job]), Basename(log[k].path))
             /\ \E m \in enhances :
                  m < k /\ log[m].job = log[k].job /\ log[m].kind = "returned"

\* a directory of two files has been processed to the end, both jobs with
\* faces and a restored image
C10_Witness ==
    /\ pc = "done"
    /\ ~IsFile(args.input)
    /\ Len(img_list) = 2
    /\ \A j \in 1..2 : Cardinality({k \in Calls("imwrite") : log[k].job = j}) = 4

====
